---- MODULE Spec2Model ----
(***************************************************************************)
(* A model of graphics_tree (src/src/lib.rs): a GraphicsTree that records  *)
(* drawing commands, its replay by draw() against a backend, and the lazy  *)
(* materialization of Texture handles in a TextureBuffer.                  *)
(***************************************************************************)
EXTENDS Integers, Sequences, FiniteSets, TLC

(***************************************************************************)
(* Bounds of the exploration.                                              *)
(***************************************************************************)
\* recording calls explored since new() / clear()
MaxCalls == 3
\* recording calls explored since new() / clear() while a handle is shared
MaxTexCalls == 2
\* with_image_mut calls explored per handle
MaxEdits == 1
\* graphics::BACK_END_MAX_VERTEX_COUNT is 1024 in the graphics crate; the
\* model scales it down so that ranges longer than one chunk stay small.
BACK_END_MAX_VERTEX_COUNT == 3

(***************************************************************************)
(* Values.                                                                 *)
(***************************************************************************)
Zero == <<0, 0, 0, 0>>
Red == <<1, 0, 0, 1>>
Blue == <<0, 0, 1, 1>>
White == <<1, 1, 1, 1>>

DefaultDrawState == [scissor |-> "None", stencil |-> "None", blend |-> "Alpha"]
AltDrawState == [scissor |-> "None", stencil |-> "None", blend |-> "Add"]

DrawColors == {Zero, Red, Blue}
DrawStates == {DefaultDrawState, AltDrawState}

\* Option<u64>
None == <<>>
Some(i) == <<i>>
unwrap(o) == o[1]

Handles == {"T1", "T2"}
Buffers == {"A", "B"}
Pixels == {1, 2}

Range(offset, length) == [offset |-> offset, length |-> length]

\* the chunk size of draw()
bufsize == 2 * BACK_END_MAX_VERTEX_COUNT

(***************************************************************************)
(* Producers: what the closure passed to tri_list / tri_list_uv hands to   *)
(* its callback, as the sequence of chunks it supplies.                    *)
(***************************************************************************)
\* one triangle: 3 vertices, 6 scalars
Tri == <<1, 2, 3, 4, 5, 6>>
\* a chunk that fills one backend call exactly
Full == [i \in 1..bufsize |-> i]
\* a single scalar
One == <<9>>

Supplies == {<<>>, <<Tri>>, <<Full>>, <<Full, One>>, <<Full, Full>>}

\* the uv chunk handed over together with a vertex chunk has its length
UvOf(chunk) == [i \in DOMAIN chunk |-> chunk[i] + 10]
WithUvs(supply) == [i \in DOMAIN supply |-> <<supply[i], UvOf(supply[i])>>]

RECURSIVE Flatten(_)
Flatten(chunks) ==
    IF chunks = <<>> THEN <<>> ELSE Head(chunks) \o Flatten(Tail(chunks))

VARIABLES
    commands, vertices, uvs, current_color, current_draw_state,
    history,
    inner, lock, poisoned, texture_buffer,
    drawPc, drawPos, drawBuf, local_color, local_draw_state, calls, panicMsg,
    other, uploads, edits, home

\* home[h] is the TextureBuffer that allocated the id of handle h, "none"
\* before its first upload (history)
tree == <<commands, vertices, uvs, current_color, current_draw_state>>
recorder == <<tree, history>>
handles == <<inner, lock, poisoned>>
drawer == <<drawPc, drawPos, drawBuf, local_color, local_draw_state, calls, panicMsg>>
vars == <<recorder, handles, texture_buffer, drawer, other, uploads, edits, home>>

(***************************************************************************)
(* Construction.                                                           *)
(***************************************************************************)
\* GraphicsTree::new
new ==
    /\ commands = <<>>
    /\ vertices = <<>>
    /\ uvs = <<>>
    /\ current_color = Zero
    /\ current_draw_state = DefaultDrawState
    /\ history = <<[op |-> "new"]>>

\* Texture::from(image): one handle per decoded image
from(image) == [id |-> None, needs_update |-> FALSE, image |-> image]

\* TextureBuffer::new
TextureBuffer_new == [textures |-> <<>>, next_id |-> 0]

Init ==
    /\ new
    /\ inner = [h \in Handles |-> from(IF h = "T1" THEN 1 ELSE 2)]
    /\ lock = [h \in Handles |-> "free"]
    /\ poisoned = [h \in Handles |-> FALSE]
    /\ texture_buffer = [b \in Buffers |-> TextureBuffer_new]
    /\ drawPc = "idle"
    /\ drawPos = 0
    /\ drawBuf = "A"
    /\ local_color = Zero
    /\ local_draw_state = DefaultDrawState
    /\ calls = <<>>
    /\ panicMsg = ""
    /\ other = [pc |-> "idle", tex |-> "T1"]
    /\ uploads = [h \in Handles |-> 0]
    /\ edits = [h \in Handles |-> 0]
    /\ home = [h \in Handles |-> "none"]

(***************************************************************************)
(* The recorder: impl Graphics for GraphicsTree.                           *)
(***************************************************************************)
\* GraphicsTree::is_empty
is_empty == Len(commands) = 0 /\ Len(vertices) = 0 /\ Len(uvs) = 0

\* the calls made on the tree since it was created or cleared, first the
\* creation or the clearing itself, each with the arguments it was given
recorded == Len(history) - 1
lastOp == history[Len(history)].op

\* recording needs &mut self, draw() holds &self: they never overlap
CanRecord == drawPc = "idle" /\ recorded < MaxCalls

\* a clear() that resets the log alone
clear_keeps_geometry ==
    /\ drawPc = "idle"
    /\ commands' = <<>>
    /\ history' = <<[op |-> "clear"]>>
    /\ UNCHANGED <<vertices, uvs, current_color, current_draw_state>>
    /\ UNCHANGED <<handles, texture_buffer, drawer, other, uploads, edits, home>>

\* GraphicsTree::clear
clear ==
    /\ drawPc = "idle"
    /\ commands' = <<>>
    /\ vertices' = <<>>
    /\ uvs' = <<>>
    /\ history' = <<[op |-> "clear"]>>
    /\ UNCHANGED <<current_color, current_draw_state>>
    /\ UNCHANGED <<handles, texture_buffer, drawer, other, uploads, edits, home>>

clear_color(color) ==
    /\ CanRecord
    /\ commands' = Append(commands, [tag |-> "ClearColor", color |-> color])
    /\ history' = Append(history, [op |-> "clear_color", color |-> color])
    /\ UNCHANGED <<vertices, uvs, current_color, current_draw_state>>
    /\ UNCHANGED <<handles, texture_buffer, drawer, other, uploads, edits, home>>

clear_stencil(value) ==
    /\ CanRecord
    /\ commands' = Append(commands, [tag |-> "ClearStencil", value |-> value])
    /\ history' = Append(history, [op |-> "clear_stencil", value |-> value])
    /\ UNCHANGED <<vertices, uvs, current_color, current_draw_state>>
    /\ UNCHANGED <<handles, texture_buffer, drawer, other, uploads, edits, home>>

\* the two comparisons that open tri_list and tri_list_uv
StateChanges(draw_state, color) ==
    (IF color # current_color
        THEN <<[tag |-> "ChangeColor", color |-> color]>> ELSE <<>>)
    \o (IF draw_state # current_draw_state
        THEN <<[tag |-> "ChangeDrawState", draw_state |-> draw_state]>> ELSE <<>>)

\* a tri_list that stores the end of the buffer as the length of the range
tri_list_total_length(draw_state, color, supply) ==
    /\ CanRecord
    /\ LET start == Len(vertices)
           after == vertices \o Flatten(supply)
       IN /\ vertices' = after
          /\ commands' = commands \o StateChanges(draw_state, color)
                \o <<[tag |-> "Colored", range |-> Range(start, Len(after))]>>
    /\ history' = Append(history, [op |-> "tri_list", draw_state |-> draw_state,
                                    color |-> color,
                                    supplied |-> Len(Flatten(supply))])
    /\ UNCHANGED <<uvs, current_color, current_draw_state>>
    /\ UNCHANGED <<handles, texture_buffer, drawer, other, uploads, edits, home>>

tri_list(draw_state, color, supply) ==
    /\ CanRecord
    /\ LET start == Len(vertices)
           after == vertices \o Flatten(supply)
       IN /\ vertices' = after
          /\ commands' = commands \o StateChanges(draw_state, color)
                \o <<[tag |-> "Colored", range |-> Range(start, Len(after) - start)]>>
    /\ history' = Append(history, [op |-> "tri_list", draw_state |-> draw_state,
                                    color |-> color,
                                    supplied |-> Len(Flatten(supply))])
    /\ UNCHANGED <<uvs, current_color, current_draw_state>>
    /\ UNCHANGED <<handles, texture_buffer, drawer, other, uploads, edits, home>>

tri_list_uv(draw_state, color, texture, supply) ==
    /\ CanRecord
    /\ LET start_vertices == Len(vertices)
           start_uvs == Len(uvs)
           after == vertices \o Flatten([i \in DOMAIN supply |-> supply[i][1]])
           after_uvs == uvs \o Flatten([i \in DOMAIN supply |-> supply[i][2]])
       IN /\ vertices' = after
          /\ uvs' = after_uvs
          /\ commands' = commands \o StateChanges(draw_state, color)
                \o <<[tag |-> "Textured", tex |-> texture,
                      vertex_range |-> Range(start_vertices, Len(after) - start_vertices),
                      uv_range |-> Range(start_uvs, Len(after_uvs) - start_uvs)]>>
    /\ history' = Append(history, [op |-> "tri_list_uv", draw_state |-> draw_state,
                                    color |-> color, texture |-> texture,
                                    supplied |-> Len(vertices') - Len(vertices)])
    /\ UNCHANGED <<current_color, current_draw_state>>
    /\ UNCHANGED <<handles, texture_buffer, drawer, other, uploads, edits, home>>

(***************************************************************************)
(* Slicing as draw() does it.  &buf[start..end] panics when start > end or *)
(* end > buf.len().                                                        *)
(***************************************************************************)
SliceOk(buf, start, end) == start <= end /\ end <= Len(buf)
Slice(buf, start, end) == SubSeq(buf, start + 1, end)

\* the for loop of the Colored arm from iteration i on; acc holds the
\* slices already handed to f
RECURSIVE ColoredChunks(_, _, _, _, _)
ColoredChunks(buf, offset, chunks, i, acc) ==
    IF i >= chunks THEN [slices |-> acc, panic |-> FALSE]
    ELSE LET start == offset + chunks * i
             end == start + bufsize
         IN IF SliceOk(buf, start, end)
               THEN ColoredChunks(buf, offset, chunks, i + 1,
                                  Append(acc, Slice(buf, start, end)))
               ELSE [slices |-> acc, panic |-> TRUE]

\* the closure draw() passes to g.tri_list for Colored(range)
ColoredSlices(buf, range) ==
    LET offset == range.offset
        length == range.length
        chunks == length \div bufsize
        full == ColoredChunks(buf, offset, chunks, 0, <<>>)
    IN IF full.panic THEN full
       ELSE IF chunks * bufsize < length
          THEN LET start == chunks * bufsize
                   len == length - start
               IN IF SliceOk(buf, offset + start, offset + len)
                     THEN [slices |-> Append(full.slices,
                                         Slice(buf, offset + start, offset + len)),
                           panic |-> FALSE]
                     ELSE [slices |-> full.slices, panic |-> TRUE]
          ELSE full

\* the for loop of the Textured arm from iteration i on
RECURSIVE TexturedChunks(_, _, _, _, _, _, _, _)
TexturedChunks(buf, buf_uv, offset_v, offset_uv, chunks_v, chunks_uv, i, acc) ==
    IF i >= chunks_v THEN [slices |-> acc, panic |-> FALSE]
    ELSE LET start_v == offset_v + chunks_v * i
             end_v == start_v + bufsize
             start_uv == offset_uv + chunks_uv * i
             end_uv == start_uv + bufsize
         IN IF SliceOk(buf, start_v, end_v) /\ SliceOk(buf_uv, start_uv, end_uv)
               THEN TexturedChunks(buf, buf_uv, offset_v, offset_uv, chunks_v,
                        chunks_uv, i + 1,
                        Append(acc, <<Slice(buf, start_v, end_v),
                                      Slice(buf_uv, start_uv, end_uv)>>))
               ELSE [slices |-> acc, panic |-> TRUE]

\* the closure draw() passes to g.tri_list_uv for Textured(_, vertex_range, uv_range)
TexturedSlices(buf, buf_uv, vertex_range, uv_range) ==
    LET offset_v == vertex_range.offset
        length_v == vertex_range.length
        chunks_v == length_v \div bufsize
        offset_uv == uv_range.offset
        length_uv == uv_range.length
        chunks_uv == length_uv \div bufsize
        full == TexturedChunks(buf, buf_uv, offset_v, offset_uv, chunks_v,
                               chunks_uv, 0, <<>>)
    IN IF full.panic THEN full
       ELSE IF chunks_v * bufsize < length_v
          THEN LET start_v == chunks_v * bufsize
                   len_v == length_v - start_v
                   start_uv == chunks_uv * bufsize
                   len_uv == length_uv - start_uv
               IN IF /\ SliceOk(buf, offset_v + start_v, offset_v + len_v)
                     /\ SliceOk(buf_uv, offset_uv + start_uv, offset_uv + len_uv)
                     THEN [slices |-> Append(full.slices,
                              <<Slice(buf, offset_v + start_v, offset_v + len_v),
                                Slice(buf_uv, offset_uv + start_uv, offset_uv + len_uv)>>),
                           panic |-> FALSE]
                     ELSE [slices |-> full.slices, panic |-> TRUE]
          ELSE full

(***************************************************************************)
(* Texture materialization: the body of `if let Ok(mut inner) = write()`.  *)
(***************************************************************************)
\* CreateTexture::create(factory, Rgba8, &image, ..): the backend texture
CreateTexture(image) == [image |-> image]

\* HashMap::insert
insert(textures, id, texture) ==
    [k \in DOMAIN textures \cup {id} |-> IF k = id THEN texture ELSE textures[k]]

\* a materialization whose re-upload leaves the dirty flag set
Materialize_keeps_dirty(in, tb, created) ==
    IF in.id = None
    THEN IF created
         THEN [inner |-> [in EXCEPT !.id = Some(tb.next_id)],
               tb |-> [textures |-> insert(tb.textures, tb.next_id,
                                           CreateTexture(in.image)),
                       next_id |-> tb.next_id + 1],
               uploaded |-> TRUE, panic |-> ""]
         ELSE [inner |-> in, tb |-> tb, uploaded |-> FALSE,
               panic |-> "Could not create texture"]
    ELSE IF in.needs_update
    THEN IF created
         THEN [inner |-> in,
               tb |-> [tb EXCEPT !.textures =
                          insert(tb.textures, unwrap(in.id),
                                 CreateTexture(in.image))],
               uploaded |-> TRUE, panic |-> ""]
         ELSE [inner |-> in, tb |-> tb, uploaded |-> FALSE,
               panic |-> "Could not create texture"]
    ELSE [inner |-> in, tb |-> tb, uploaded |-> FALSE, panic |-> ""]

\* a materialization that allocates an id without advancing next_id
Materialize_reuses_id(in, tb, created) ==
    IF in.id = None
    THEN IF created
         THEN [inner |-> [in EXCEPT !.id = Some(tb.next_id)],
               tb |-> [textures |-> insert(tb.textures, tb.next_id,
                                           CreateTexture(in.image)),
                       next_id |-> tb.next_id],
               uploaded |-> TRUE, panic |-> ""]
         ELSE [inner |-> in, tb |-> tb, uploaded |-> FALSE,
               panic |-> "Could not create texture"]
    ELSE IF in.needs_update
    THEN IF created
         THEN [inner |-> [in EXCEPT !.needs_update = FALSE],
               tb |-> [tb EXCEPT !.textures =
                          insert(tb.textures, unwrap(in.id),
                                 CreateTexture(in.image))],
               uploaded |-> TRUE, panic |-> ""]
         ELSE [inner |-> in, tb |-> tb, uploaded |-> FALSE,
               panic |-> "Could not create texture"]
    ELSE [inner |-> in, tb |-> tb, uploaded |-> FALSE, panic |-> ""]

\* a materialization that takes the next id before it asks the factory
Materialize_consumes_id(in, tb, created) ==
    LET unchanged == [inner |-> in, tb |-> tb, uploaded |-> FALSE, panic |-> ""]
        step ==
            IF in.id = None
            THEN IF created
                 THEN [inner |-> [in EXCEPT !.id = Some(tb.next_id)],
                       tb |-> [textures |-> insert(tb.textures, tb.next_id,
                                                   CreateTexture(in.image)),
                               next_id |-> tb.next_id + 1],
                       uploaded |-> TRUE, panic |-> ""]
                 ELSE [inner |-> in, tb |-> [tb EXCEPT !.next_id = @ + 1],
                       uploaded |-> FALSE, panic |-> "Could not create texture"]
            ELSE IF in.needs_update
            THEN IF created
                 THEN [inner |-> [in EXCEPT !.needs_update = FALSE],
                       tb |-> [tb EXCEPT !.textures =
                                  insert(tb.textures, unwrap(in.id),
                                         CreateTexture(in.image))],
                       uploaded |-> TRUE, panic |-> ""]
                 ELSE [unchanged EXCEPT !.panic = "Could not create texture"]
            ELSE unchanged
    IN IF step.panic # "" THEN step
       ELSE IF unwrap(step.inner.id) \in DOMAIN step.tb.textures
       THEN step
       ELSE [unchanged EXCEPT !.panic = "Texture does not exist"]

\* `created` is whether the factory accepts an upload, should one be made
Materialize(in, tb, created) ==
    LET unchanged == [inner |-> in, tb |-> tb, uploaded |-> FALSE, panic |-> ""]
        step ==
            IF in.id = None
            THEN IF created
                 THEN [inner |-> [in EXCEPT !.id = Some(tb.next_id)],
                       tb |-> [textures |-> insert(tb.textures, tb.next_id,
                                                   CreateTexture(in.image)),
                               next_id |-> tb.next_id + 1],
                       uploaded |-> TRUE, panic |-> ""]
                 ELSE [unchanged EXCEPT !.panic = "Could not create texture"]
            ELSE IF in.needs_update
            THEN IF created
                 THEN [inner |-> [in EXCEPT !.needs_update = FALSE],
                       tb |-> [tb EXCEPT !.textures =
                                  insert(tb.textures, unwrap(in.id),
                                         CreateTexture(in.image))],
                       uploaded |-> TRUE, panic |-> ""]
                 ELSE [unchanged EXCEPT !.panic = "Could not create texture"]
            ELSE unchanged
    IN IF step.panic # "" THEN step
       ELSE IF unwrap(step.inner.id) \in DOMAIN step.tb.textures
       THEN step
       ELSE [unchanged EXCEPT !.panic = "Texture does not exist"]

(***************************************************************************)
(* GraphicsTree::draw, one step per command of the log.                    *)
(***************************************************************************)
Walking == drawPc = "walk" /\ drawPos <= Len(commands)
Cmd == commands[drawPos]

DrawBegin(b) ==
    /\ drawPc = "idle"
    /\ drawPc' = "walk"
    /\ drawPos' = 1
    /\ drawBuf' = b
    /\ local_color' = Zero
    /\ local_draw_state' = DefaultDrawState
    /\ calls' = <<>>
    /\ panicMsg' = ""
    /\ UNCHANGED <<recorder, handles, texture_buffer, other, uploads, edits, home>>

\* a ClearColor arm that forwards the walker's color, not the recorded one
DrawClearColor_local ==
    /\ drawPc = "walk" /\ drawPos <= Len(commands)
    /\ commands[drawPos].tag = "ClearColor"
    /\ calls' = Append(calls, [op |-> "clear_color", color |-> local_color])
    /\ drawPos' = drawPos + 1
    /\ UNCHANGED <<drawPc, drawBuf, local_color, local_draw_state, panicMsg>>
    /\ UNCHANGED <<recorder, handles, texture_buffer, other, uploads, edits, home>>

DrawClearColor ==
    /\ Walking /\ Cmd.tag = "ClearColor"
    /\ calls' = Append(calls, [op |-> "clear_color", color |-> Cmd.color])
    /\ drawPos' = drawPos + 1
    /\ UNCHANGED <<drawPc, drawBuf, local_color, local_draw_state, panicMsg>>
    /\ UNCHANGED <<recorder, handles, texture_buffer, other, uploads, edits, home>>

DrawClearStencil ==
    /\ Walking /\ Cmd.tag = "ClearStencil"
    /\ calls' = Append(calls, [op |-> "clear_stencil", value |-> Cmd.value])
    /\ drawPos' = drawPos + 1
    /\ UNCHANGED <<drawPc, drawBuf, local_color, local_draw_state, panicMsg>>
    /\ UNCHANGED <<recorder, handles, texture_buffer, other, uploads, edits, home>>

DrawChangeColor ==
    /\ Walking /\ Cmd.tag = "ChangeColor"
    /\ local_color' = Cmd.color
    /\ drawPos' = drawPos + 1
    /\ UNCHANGED <<drawPc, drawBuf, local_draw_state, calls, panicMsg>>
    /\ UNCHANGED <<recorder, handles, texture_buffer, other, uploads, edits, home>>

DrawChangeDrawState ==
    /\ Walking /\ Cmd.tag = "ChangeDrawState"
    /\ local_draw_state' = Cmd.draw_state
    /\ drawPos' = drawPos + 1
    /\ UNCHANGED <<drawPc, drawBuf, local_color, calls, panicMsg>>
    /\ UNCHANGED <<recorder, handles, texture_buffer, other, uploads, edits, home>>

DrawColored ==
    /\ Walking /\ Cmd.tag = "Colored"
    /\ LET r == ColoredSlices(vertices, Cmd.range)
       IN /\ calls' = Append(calls, [op |-> "tri_list",
                                     draw_state |-> local_draw_state,
                                     color |-> local_color,
                                     slices |-> r.slices])
          /\ IF r.panic
                THEN /\ drawPc' = "aborted"
                     /\ panicMsg' = "slice index out of range"
                     /\ UNCHANGED drawPos
                ELSE /\ drawPos' = drawPos + 1
                     /\ UNCHANGED <<drawPc, panicMsg>>
    /\ UNCHANGED <<drawBuf, local_color, local_draw_state>>
    /\ UNCHANGED <<recorder, handles, texture_buffer, other, uploads, edits, home>>

\* tex.0.write() is called: RwLock::write takes the lock when it is free
\* and otherwise parks the thread until it is
DrawWrite ==
    /\ Walking /\ Cmd.tag = "Textured"
    /\ IF lock[Cmd.tex] = "free"
          THEN /\ lock' = [lock EXCEPT ![Cmd.tex] = "draw"]
               /\ drawPc' = "locked"
          ELSE /\ drawPc' = "blocked"
               /\ UNCHANGED lock
    /\ UNCHANGED <<drawPos, drawBuf, local_color, local_draw_state, calls, panicMsg>>
    /\ UNCHANGED <<recorder, inner, poisoned, texture_buffer, other, uploads, edits, home>>

\* the parked write() returns once the other party has released the lock
DrawUnblock ==
    /\ drawPc = "blocked"
    /\ lock[Cmd.tex] = "free"
    /\ lock' = [lock EXCEPT ![Cmd.tex] = "draw"]
    /\ drawPc' = "locked"
    /\ UNCHANGED <<drawPos, drawBuf, local_color, local_draw_state, calls, panicMsg>>
    /\ UNCHANGED <<recorder, inner, poisoned, texture_buffer, other, uploads, edits, home>>

\* the rest of the Textured arm, with the write guard in hand: write()
\* returned Err iff the lock is poisoned
DrawTextured(created) ==
    /\ drawPc = "locked"
    /\ LET h == Cmd.tex
           m == Materialize(inner[h], texture_buffer[drawBuf], created)
           r == TexturedSlices(vertices, uvs, Cmd.vertex_range, Cmd.uv_range)
       IN /\ lock' = [lock EXCEPT ![h] = "free"]
          /\ IF poisoned[h]
             THEN /\ drawPc' = "aborted"
                  /\ panicMsg' = "Image is used elsewhere"
                  /\ UNCHANGED <<inner, poisoned, texture_buffer, uploads, home, calls, drawPos>>
             ELSE IF m.panic # ""
             THEN /\ drawPc' = "aborted"
                  /\ panicMsg' = m.panic
                  /\ poisoned' = [poisoned EXCEPT ![h] = TRUE]
                  /\ inner' = [inner EXCEPT ![h] = m.inner]
                  /\ texture_buffer' = [texture_buffer EXCEPT ![drawBuf] = m.tb]
                  /\ UNCHANGED <<uploads, home, calls, drawPos>>
             ELSE /\ inner' = [inner EXCEPT ![h] = m.inner]
                  /\ texture_buffer' = [texture_buffer EXCEPT ![drawBuf] = m.tb]
                  /\ uploads' = [uploads EXCEPT ![h] = @ + (IF m.uploaded THEN 1 ELSE 0)]
                  /\ home' = IF inner[h].id = None
                                THEN [home EXCEPT ![h] = drawBuf] ELSE home
                  /\ calls' = Append(calls, [op |-> "tri_list_uv",
                                             draw_state |-> local_draw_state,
                                             color |-> local_color,
                                             texture |-> m.tb.textures[unwrap(m.inner.id)],
                                             slices |-> r.slices])
                  /\ UNCHANGED poisoned
                  /\ IF r.panic
                        THEN /\ drawPc' = "aborted"
                             /\ panicMsg' = "slice index out of range"
                             /\ UNCHANGED drawPos
                        ELSE /\ drawPc' = "walk"
                             /\ drawPos' = drawPos + 1
                             /\ UNCHANGED panicMsg
    /\ UNCHANGED <<drawBuf, local_color, local_draw_state>>
    /\ UNCHANGED <<recorder, other, edits>>

\* the for loop is over: draw() returns normally
DrawFinish ==
    /\ drawPc = "walk" /\ drawPos > Len(commands)
    /\ drawPc' = "done"
    /\ UNCHANGED <<drawPos, drawBuf, local_color, local_draw_state, calls, panicMsg>>
    /\ UNCHANGED <<recorder, handles, texture_buffer, other, uploads, edits, home>>

\* a draw() that empties the tree once it is over
DrawReturn_clears ==
    /\ drawPc \in {"done", "aborted"}
    /\ drawPc' = "idle"
    /\ drawPos' = 0
    /\ drawBuf' = "A"
    /\ local_color' = Zero
    /\ local_draw_state' = DefaultDrawState
    /\ calls' = <<>>
    /\ panicMsg' = ""
    /\ commands' = <<>>
    /\ vertices' = <<>>
    /\ uvs' = <<>>
    /\ UNCHANGED <<current_color, current_draw_state, history>>
    /\ UNCHANGED <<handles, texture_buffer, other, uploads, edits, home>>

\* control is back at the caller, after a return or after the unwinding of
\* a panic; the locals of the call are gone
DrawReturn ==
    /\ drawPc \in {"done", "aborted"}
    /\ drawPc' = "idle"
    /\ drawPos' = 0
    /\ drawBuf' = "A"
    /\ local_color' = Zero
    /\ local_draw_state' = DefaultDrawState
    /\ calls' = <<>>
    /\ panicMsg' = ""
    /\ UNCHANGED <<recorder, handles, texture_buffer, other, uploads, edits, home>>

(***************************************************************************)
(* Another party that shares a handle: with_image_mut and get_size.        *)
(***************************************************************************)
\* self.0.write().unwrap(): waits for the lock, panics when it is poisoned
WithImageMutBegin(h) ==
    /\ other.pc = "idle"
    /\ edits[h] < MaxEdits
    /\ lock[h] = "free"
    /\ IF poisoned[h]
          THEN /\ other' = [pc |-> "panicked", tex |-> h]
               /\ UNCHANGED lock
          ELSE /\ other' = [pc |-> "editing", tex |-> h]
               /\ lock' = [lock EXCEPT ![h] = "edit"]
    /\ UNCHANGED <<recorder, inner, poisoned, texture_buffer, drawer, uploads, edits, home>>

\* a with_image_mut that marks the handle only when f changed the image
WithImageMutEnd_if_changed(image, returns) ==
    /\ other.pc = "editing"
    /\ LET h == other.tex
       IN /\ lock' = [lock EXCEPT ![h] = "free"]
          /\ IF returns
                THEN /\ inner' = [inner EXCEPT
                            ![h].image = image,
                            ![h].needs_update = @ \/ image # inner[h].image]
                     /\ other' = [pc |-> "idle", tex |-> "T1"]
                     /\ UNCHANGED poisoned
                ELSE /\ inner' = [inner EXCEPT ![h].image = image]
                     /\ poisoned' = [poisoned EXCEPT ![h] = TRUE]
                     /\ other' = [pc |-> "panicked", tex |-> h]
          /\ edits' = [edits EXCEPT ![h] = @ + 1]
    /\ UNCHANGED <<recorder, texture_buffer, drawer, uploads, home>>

\* f(&mut inner.image); inner.needs_update = true; the guard is dropped.
\* `image` is what f leaves in the image, `returns` whether f returns
WithImageMutEnd(image, returns) ==
    /\ other.pc = "editing"
    /\ LET h == other.tex
       IN /\ lock' = [lock EXCEPT ![h] = "free"]
          /\ IF returns
                THEN /\ inner' = [inner EXCEPT ![h].image = image,
                                               ![h].needs_update = TRUE]
                     /\ other' = [pc |-> "idle", tex |-> "T1"]
                     /\ UNCHANGED poisoned
                ELSE /\ inner' = [inner EXCEPT ![h].image = image]
                     /\ poisoned' = [poisoned EXCEPT ![h] = TRUE]
                     /\ other' = [pc |-> "panicked", tex |-> h]
          /\ edits' = [edits EXCEPT ![h] = @ + 1]
    /\ UNCHANGED <<recorder, texture_buffer, drawer, uploads, home>>

\* ImageSize::get_size: self.0.read().unwrap()
GetSizeBegin(h) ==
    /\ other.pc = "idle"
    /\ lock[h] = "free"
    /\ IF poisoned[h]
          THEN /\ other' = [pc |-> "panicked", tex |-> h]
               /\ UNCHANGED lock
          ELSE /\ other' = [pc |-> "reading", tex |-> h]
               /\ lock' = [lock EXCEPT ![h] = "read"]
    /\ UNCHANGED <<recorder, inner, poisoned, texture_buffer, drawer, uploads, edits, home>>

GetSizeEnd ==
    /\ other.pc = "reading"
    /\ lock' = [lock EXCEPT ![other.tex] = "free"]
    /\ other' = [pc |-> "idle", tex |-> "T1"]
    /\ UNCHANGED <<recorder, inner, poisoned, texture_buffer, drawer, uploads, edits, home>>

\* the panic of the other party has unwound
OtherRecover ==
    /\ other.pc = "panicked"
    /\ other' = [pc |-> "idle", tex |-> "T1"]
    /\ UNCHANGED <<recorder, handles, texture_buffer, drawer, uploads, edits, home>>

(***************************************************************************)
(* Specifications.                                                         *)
(***************************************************************************)
\* the styles with one triangle, and the supplies with one style
TriListInputs ==
    {<<DefaultDrawState, c, <<Tri>>>> : c \in DrawColors}
    \cup {<<AltDrawState, c, <<Tri>>>> : c \in {Zero, Red}}
    \cup {<<DefaultDrawState, Red, s>> : s \in Supplies}

TriListUvInputs ==
    {<<DefaultDrawState, Red, "T1", WithUvs(s)>> : s \in {<<Tri>>, <<Full, One>>}}
    \cup {<<DefaultDrawState, Zero, "T1", <<>>>>}

Record ==
    \/ clear
    \/ clear_color(White)
    \/ clear_stencil(1)
    \/ \E in \in TriListInputs : tri_list(in[1], in[2], in[3])
    \/ \E in \in TriListUvInputs : tri_list_uv(in[1], in[2], in[3], in[4])

ReplayPlain ==
    \/ DrawClearColor
    \/ DrawClearStencil
    \/ DrawChangeColor
    \/ DrawChangeDrawState
    \/ DrawColored

ReplayTextured ==
    \/ DrawWrite
    \/ \E created \in BOOLEAN : DrawTextured(created)
    \/ DrawFinish
    \/ DrawReturn

\* one thread records and replays against one TextureBuffer
Next ==
    \/ Record
    \/ DrawBegin("A")
    \/ ReplayPlain
    \/ ReplayTextured

Spec == Init /\ [][Next]_vars

\* textured draws of both handles, without geometry
RecordTex ==
    \/ clear
    \/ /\ recorded < MaxTexCalls
       /\ \E h \in Handles : tri_list_uv(DefaultDrawState, Zero, h, <<>>)

\* the other party edits and measures the handles
Share ==
    \/ \E h \in Handles : WithImageMutBegin(h)
    \/ \E image \in Pixels, returns \in BOOLEAN : WithImageMutEnd(image, returns)
    \/ \E h \in Handles : GetSizeBegin(h)
    \/ GetSizeEnd
    \/ OtherRecover

\* the handles are shared with another thread while one TextureBuffer
\* materializes them
NextTex ==
    \/ RecordTex
    \/ DrawBegin("A")
    \/ ReplayTextured
    \/ DrawUnblock
    \/ Share

SpecTex == Init /\ [][NextTex]_vars

\* the factory accepts every upload
ReplayAccepting ==
    \/ DrawWrite
    \/ DrawTextured(TRUE)
    \/ DrawFinish
    \/ DrawReturn

\* one thread replays its tree against two TextureBuffers in turn
NextMulti ==
    \/ RecordTex
    \/ \E b \in Buffers : DrawBegin(b)
    \/ ReplayAccepting

SpecMulti == Init /\ [][NextMulti]_vars

(***************************************************************************)
(* Vocabulary of the claims.                                               *)
(***************************************************************************)
DrawOps == {"tri_list", "tri_list_uv"}
StateTags == {"ChangeColor", "ChangeDrawState"}

\* the most recent draw call of the history h, or default when there is none
RECURSIVE LastDraw(_, _)
LastDraw(h, default) ==
    IF h = <<>> THEN default
    ELSE IF h[Len(h)].op \in DrawOps THEN h[Len(h)]
    ELSE LastDraw(SubSeq(h, 1, Len(h) - 1), default)

\* the color and the draw state of a tree on which nothing was drawn yet
NothingDrawn == [color |-> Zero, draw_state |-> DefaultDrawState]

\* the commands a step has appended to the log
Appended == SubSeq(commands', Len(commands) + 1, Len(commands'))

\* a draw was recorded by this step, on a tree that was never cleared
DrawRecorded ==
    /\ Len(history') = Len(history) + 1
    /\ history'[Len(history')].op \in DrawOps
    /\ history[1].op = "new"

\* C1: a tri_list / tri_list_uv call appends ChangeColor(c) if and only if
\* c differs from the color of the most recently recorded draw (initially
\* [0,0,0,0]), and ChangeDrawState(s) if and only if s differs from the draw
\* state of the most recently recorded draw (initially the default).
C1_DedupAgainstLastDraw ==
    [][DrawRecorded =>
        LET call == history'[Len(history')]
            prev == LastDraw(history, NothingDrawn)
        IN /\ (\E i \in DOMAIN Appended :
                   Appended[i] = [tag |-> "ChangeColor", color |-> call.color])
              <=> (call.color # prev.color)
           /\ (\E i \in DOMAIN Appended :
                   Appended[i] = [tag |-> "ChangeDrawState",
                                  draw_state |-> call.draw_state])
              <=> (call.draw_state # prev.draw_state)]_vars

\* the commands of the log that make draw() call the backend, in order
RECURSIVE CallCommands(_)
CallCommands(cmds) ==
    IF cmds = <<>> THEN <<>>
    ELSE IF Head(cmds).tag \in StateTags THEN CallCommands(Tail(cmds))
    ELSE <<Head(cmds)>> \o CallCommands(Tail(cmds))

CeilDiv(a, b) == (a + b - 1) \div b

\* C2: for a Colored command with range (offset, L) and C = bufsize, draw()
\* issues ceil(L/C) slices, each of length at most C, whose concatenation in
\* order equals vertices[offset .. offset+L]; the remainder is never dropped.
C2_ChunkingComplete ==
    \A j \in DOMAIN calls :
        LET cmd == CallCommands(commands)[j]
        IN cmd.tag = "Colored" =>
            /\ Len(calls[j].slices) = CeilDiv(cmd.range.length, bufsize)
            /\ \A k \in DOMAIN calls[j].slices : Len(calls[j].slices[k]) <= bufsize
            /\ Flatten(calls[j].slices)
                 = Slice(vertices, cmd.range.offset,
                         cmd.range.offset + cmd.range.length)

\* C4: is_empty() is true right after new(), false right after any
\* clear_color, clear_stencil, tri_list or tri_list_uv call (also when the
\* producer supplied nothing), and true right after clear().
C4_Emptiness ==
    /\ lastOp = "new" => is_empty
    /\ lastOp \in {"clear_color", "clear_stencil"} \cup DrawOps => ~is_empty
    /\ lastOp = "clear" => is_empty

\* the last call was a draw whose producer supplied nothing, on a tree
\* without geometry: the tree is not empty all the same
C4_Witness ==
    /\ lastOp \in DrawOps
    /\ history[Len(history)].supplied = 0
    /\ Len(vertices) = 0
    /\ ~is_empty

\* the end-to-end scenario of C5
ScenarioHistory ==
    <<[op |-> "new"],
      [op |-> "clear_color", color |-> White],
      [op |-> "tri_list", draw_state |-> DefaultDrawState, color |-> Red,
       supplied |-> 6],
      [op |-> "tri_list_uv", draw_state |-> DefaultDrawState, color |-> Red,
       texture |-> "T1", supplied |-> 6]>>

\* C5: after clear_color(white), a 3-vertex colored triangle with color
\* [1,0,0,1] and a 3-vertex textured triangle with the same color and draw
\* state, the log is exactly [ClearColor(white), ChangeColor([1,0,0,1]),
\* Colored(length 6), Textured(T, length 6, length 6)].
C5_ScenarioLog ==
    history = ScenarioHistory =>
        commands = <<[tag |-> "ClearColor", color |-> White],
                     [tag |-> "ChangeColor", color |-> Red],
                     [tag |-> "Colored", range |-> Range(0, 6)],
                     [tag |-> "Textured", tex |-> "T1",
                      vertex_range |-> Range(6, 6),
                      uv_range |-> Range(0, 6)]>>

\* the handle the walker is materializing, and the cache it uses
DrawTex == commands[drawPos].tex
Cache == texture_buffer["A"]

\* this step is a materialization of h that succeeded
Materialized(h) ==
    /\ drawPc = "locked" /\ DrawTex = h
    /\ Len(calls') = Len(calls) + 1

\* C3: a handle that was never edited is uploaded once, however often it is
\* materialized against the TextureBuffer; the materialization that follows
\* an edit of a materialized handle uploads once more, under the id the
\* handle has (no entry is added, next_id stays), and a materialization of a
\* handle that is not marked uploads nothing.
C3_MaterializeOnce ==
    /\ [](\A h \in Handles :
            edits[h] = 0 /\ ~(other.pc = "editing" /\ other.tex = h) =>
                /\ uploads[h] <= 1
                /\ inner[h].id # None => uploads[h] = 1)
    /\ [][\A h \in Handles :
            Materialized(h) /\ inner[h].id # None =>
                /\ inner'[h].id = inner[h].id
                /\ ~inner'[h].needs_update
                /\ DOMAIN Cache'.textures = DOMAIN Cache.textures
                /\ Cache'.next_id = Cache.next_id
                /\ IF inner[h].needs_update
                      THEN /\ uploads'[h] = uploads[h] + 1
                           /\ Cache'.textures[unwrap(inner[h].id)]
                                = CreateTexture(inner[h].image)
                      ELSE /\ uploads'[h] = uploads[h]
                           /\ Cache'.textures = Cache.textures]_vars

\* T1 was materialized, edited once and materialized again, and the draw
\* under way has since materialized it once more without an upload
C3_Witness ==
    /\ edits["T1"] = 1 /\ uploads["T1"] = 2
    /\ inner["T1"].id = Some(0) /\ ~inner["T1"].needs_update
    /\ DOMAIN Cache.textures = {0}
    /\ Len(calls) = 2 /\ calls[1].texture = calls[2].texture

\* C6: when another party holds the lock of the handle as draw() reaches its
\* Textured command, the materialization fails at once instead of waiting,
\* and leaves the cache and the handle as they were.
C6_FailsWithoutWaiting ==
    [][(/\ Walking /\ Cmd.tag = "Textured"
        /\ lock[Cmd.tex] \in {"read", "edit"}
        /\ drawPc' # drawPc)
       => (/\ drawPc' = "aborted"
           /\ UNCHANGED <<texture_buffer, inner>>)]_vars

\* what draw() calls on the backend for a command
ExpectedCall(cmd) ==
    IF cmd.tag = "ClearColor" THEN [op |-> "clear_color", color |-> cmd.color]
    ELSE IF cmd.tag = "ClearStencil" THEN [op |-> "clear_stencil", value |-> cmd.value]
    ELSE IF cmd.tag = "Colored" THEN [op |-> "tri_list"]
    ELSE [op |-> "tri_list_uv"]

\* a backend call without the style and the geometry of a draw
CallSignature(call) ==
    IF call.op = "clear_color" THEN [op |-> "clear_color", color |-> call.color]
    ELSE IF call.op = "clear_stencil" THEN [op |-> "clear_stencil", value |-> call.value]
    ELSE [op |-> call.op]

ExpectedCalls(cmds) ==
    [j \in DOMAIN CallCommands(cmds) |-> ExpectedCall(CallCommands(cmds)[j])]

Signatures == [j \in DOMAIN calls |-> CallSignature(calls[j])]

RangeLengths(cmd) ==
    IF cmd.tag = "Colored" THEN {cmd.range.length}
    ELSE IF cmd.tag = "Textured" THEN {cmd.vertex_range.length, cmd.uv_range.length}
    ELSE {}

ShortRanges ==
    \A i \in DOMAIN commands : \A l \in RangeLengths(commands[i]) : l <= bufsize

\* C7: the backend calls of one draw() follow the log: one clear_color /
\* clear_stencil with the recorded value per clear command, none for
\* ChangeColor / ChangeDrawState, one tri_list per Colored and one
\* tri_list_uv per Textured command, in the order of the commands; a draw()
\* that returns has done so for the whole log; and when no range is longer
\* than the chunk size no draw fails on a slice and each range goes to the
\* backend in a single slice.
C7_CallsFollowLog ==
    /\ drawPc \in {"walk", "locked", "blocked", "done"} =>
          Signatures = ExpectedCalls(SubSeq(commands, 1, drawPos - 1))
    /\ drawPc = "done" => Signatures = ExpectedCalls(commands)
    /\ drawPc = "aborted" =>
          \/ Signatures = ExpectedCalls(SubSeq(commands, 1, drawPos - 1))
          \/ /\ panicMsg = "slice index out of range"
             /\ Signatures = ExpectedCalls(SubSeq(commands, 1, drawPos))
    /\ ShortRanges =>
          /\ panicMsg # "slice index out of range"
          /\ \A j \in DOMAIN calls :
                LET cmd == CallCommands(commands)[j]
                IN /\ cmd.tag = "Colored" =>
                        calls[j].slices =
                            IF cmd.range.length = 0 THEN <<>>
                            ELSE <<Slice(vertices, cmd.range.offset,
                                         cmd.range.offset + cmd.range.length)>>
                   /\ cmd.tag = "Textured" =>
                        Len(calls[j].slices) =
                            IF cmd.vertex_range.length = 0 THEN 0 ELSE 1

\* the replay of the scenario of C5 has returned: a clear, an untextured and
\* a textured draw, from a log that also holds ChangeColor commands
C7_Witness ==
    /\ drawPc = "done"
    /\ history = ScenarioHistory
    /\ Len(calls) = 3 /\ Len(commands) > 3
    /\ calls[1] = [op |-> "clear_color", color |-> White]
    /\ calls[2].op = "tri_list" /\ Len(calls[2].slices) = 1
    /\ calls[3].op = "tri_list_uv" /\ Len(calls[3].slices) = 1

\* C8: a with_image_mut that returns leaves needs_update = true, whatever
\* needs_update and id were and whether or not f changed a pixel, and
\* changes neither the id of the handle nor a cache.
C8_EditMarksDirty ==
    [][(other.pc = "editing" /\ other'.pc = "idle") =>
        /\ inner'[other.tex].needs_update
        /\ inner'[other.tex].id = inner[other.tex].id
        /\ texture_buffer' = texture_buffer]_vars

\* T1 was edited before its first materialization by an f that left the
\* image as it was
C8_Witness ==
    /\ edits["T1"] = 1 /\ other.pc = "idle" /\ ~poisoned["T1"]
    /\ inner["T1"] = [id |-> None, needs_update |-> TRUE, image |-> 1]

\* C9: with one TextureBuffer, the ids in use are 0 .. next_id - 1, each
\* handle with an id has its entry, no two handles share an id, an id is
\* given once and is next_id at that time, next_id only grows, no entry
\* is removed, and "Texture does not exist" is never raised.
C9_IdsAndEntries ==
    /\ [](/\ DOMAIN Cache.textures = 0 .. Cache.next_id - 1
          /\ \A h \in Handles : inner[h].id # None =>
                /\ unwrap(inner[h].id) \in DOMAIN Cache.textures
                /\ unwrap(inner[h].id) < Cache.next_id
          /\ \A h1, h2 \in Handles :
                h1 # h2 /\ inner[h1].id # None => inner[h1].id # inner[h2].id
          /\ panicMsg # "Texture does not exist")
    /\ [][/\ Cache'.next_id >= Cache.next_id
          /\ DOMAIN Cache.textures \subseteq DOMAIN Cache'.textures
          /\ \A h \in Handles : inner'[h].id # inner[h].id =>
                /\ inner[h].id = None
                /\ inner'[h].id = Some(Cache.next_id)
                /\ Cache'.next_id = Cache.next_id + 1]_vars

\* both handles are materialized, T2 first
C9_Witness ==
    /\ inner["T2"].id = Some(0) /\ inner["T1"].id = Some(1)
    /\ Cache.next_id = 2

\* C10: no step of a draw(), be it its last before a return or before a
\* panic, changes the log, the vertex buffer, the uv buffer or the current
\* color and draw state of the recorder.
C10_DrawKeepsTree ==
    [][(drawPc # "idle" \/ drawPc' # "idle") => UNCHANGED tree]_vars

\* a draw() has failed on a slice after it called the backend, with the
\* log and the geometry still in place
C10_Witness ==
    /\ drawPc = "aborted" /\ panicMsg = "slice index out of range"
    /\ Len(calls) > 1
    /\ Len(commands) > drawPos /\ Len(vertices) > bufsize

\* C11: every Colored / Textured command is replayed with the color and the
\* draw state that were passed to the recording call that produced it, also
\* a draw with color [0,0,0,0] or the default draw state that follows a draw
\* with another color or draw state, and draws recorded after a clear().
C11_ReplayFidelity ==
    \A j \in DOMAIN calls :
        history[j + 1].op \in DrawOps =>
            /\ calls[j].color = history[j + 1].color
            /\ calls[j].draw_state = history[j + 1].draw_state

\* the k-th slice of a range as the chunking algorithm defines it: full
\* slices at offset + i*bufsize, then the remainder up to offset + length
ChunkSlice(buf, range, k) ==
    LET chunks == range.length \div bufsize
    IN IF k <= chunks
          THEN Slice(buf, range.offset + (k - 1) * bufsize,
                     range.offset + k * bufsize)
          ELSE Slice(buf, range.offset + chunks * bufsize,
                     range.offset + range.length)

\* C12: for a range with chunks = length / bufsize >= 1, the i-th full slice
\* handed to the backend is buffer[offset + i*bufsize .. offset +
\* (i+1)*bufsize] and the remainder is buffer[offset + chunks*bufsize ..
\* offset + length]; a Textured command slices vertices and uvs in lockstep,
\* each from its own offset.
C12_SliceBounds ==
    \A j \in DOMAIN calls :
        LET cmd == CallCommands(commands)[j]
        IN /\ (cmd.tag = "Colored" /\ cmd.range.length >= bufsize) =>
                \A k \in DOMAIN calls[j].slices :
                    calls[j].slices[k] = ChunkSlice(vertices, cmd.range, k)
           /\ (cmd.tag = "Textured" /\ cmd.vertex_range.length >= bufsize) =>
                \A k \in DOMAIN calls[j].slices :
                    calls[j].slices[k] =
                        <<ChunkSlice(vertices, cmd.vertex_range, k),
                          ChunkSlice(uvs, cmd.uv_range, k)>>

\* the range commands of a log and the draw calls of a history, in order
RECURSIVE RangeCommands(_)
RangeCommands(cmds) ==
    IF cmds = <<>> THEN <<>>
    ELSE IF Head(cmds).tag \in {"Colored", "Textured"}
         THEN <<Head(cmds)>> \o RangeCommands(Tail(cmds))
         ELSE RangeCommands(Tail(cmds))

RECURSIVE DrawCalls(_)
DrawCalls(h) ==
    IF h = <<>> THEN <<>>
    ELSE IF Head(h).op \in DrawOps
         THEN <<Head(h)>> \o DrawCalls(Tail(h))
         ELSE DrawCalls(Tail(h))

RECURSIVE TexturedCommands(_)
TexturedCommands(cmds) ==
    IF cmds = <<>> THEN <<>>
    ELSE IF Head(cmds).tag = "Textured"
         THEN <<Head(cmds)>> \o TexturedCommands(Tail(cmds))
         ELSE TexturedCommands(Tail(cmds))

VertexRange(cmd) == IF cmd.tag = "Colored" THEN cmd.range ELSE cmd.vertex_range

\* C13: every stored range ends within the buffer it indexes; the vertex
\* ranges of successive range commands do not overlap, ascend, and have the
\* length their producer supplied (zero when it supplied nothing); so do the
\* uv ranges of successive Textured commands.
C13_RangesWithinBuffers ==
    LET rs == RangeCommands(commands)
        ds == DrawCalls(history)
        ts == TexturedCommands(commands)
    IN /\ Len(rs) = Len(ds)
       /\ \A i \in DOMAIN rs :
            /\ VertexRange(rs[i]).offset + VertexRange(rs[i]).length <= Len(vertices)
            /\ VertexRange(rs[i]).length = ds[i].supplied
            /\ i > 1 => VertexRange(rs[i]).offset >=
                          VertexRange(rs[i - 1]).offset + VertexRange(rs[i - 1]).length
       /\ \A i \in DOMAIN ts :
            /\ ts[i].uv_range.offset + ts[i].uv_range.length <= Len(uvs)
            /\ ts[i].uv_range.length = ts[i].vertex_range.length
            /\ i > 1 => ts[i].uv_range.offset >=
                          ts[i - 1].uv_range.offset + ts[i - 1].uv_range.length

\* a colored, a textured and an empty draw were recorded: the textured one
\* starts behind the first in vertices and at 0 in uvs
C13_Witness ==
    LET rs == RangeCommands(commands)
    IN /\ Len(rs) = 3
       /\ rs[1].tag = "Colored" /\ rs[1].range.length > 0
       /\ rs[2].tag = "Textured"
       /\ rs[2].vertex_range.offset > 0 /\ rs[2].uv_range.offset = 0
       /\ rs[2].uv_range.length > 0
       /\ VertexRange(rs[3]).length = 0

\* C14: a handle whose id was allocated by one texture buffer and that is
\* materialized by a draw against another one is uploaded by that buffer,
\* which stores its own entry under its own next id; the handle's id is
\* overwritten with it, the first buffer keeps its entry, and the draw goes
\* on with a texture created from this handle's image: no panic, no texture
\* of another handle.
C14_ForeignHandleUploads ==
    [][\A h \in Handles :
        (/\ drawPc = "locked" /\ DrawTex = h /\ ~poisoned[h]
         /\ inner[h].id # None /\ home[h] # drawBuf)
        => LET id == texture_buffer[drawBuf].next_id
           IN /\ uploads'[h] = uploads[h] + 1
              /\ inner'[h].id = Some(id)
              /\ id \in DOMAIN texture_buffer'[drawBuf].textures
              /\ texture_buffer'[drawBuf].textures[id] = CreateTexture(inner[h].image)
              /\ texture_buffer'[home[h]] = texture_buffer[home[h]]
              /\ drawPc' # "aborted"
              /\ Len(calls') = Len(calls) + 1
              /\ calls'[Len(calls')].texture = CreateTexture(inner[h].image)]_vars

\* C15: every materialization that succeeds leaves needs_update false, also
\* the first one of a handle that was edited before it, so that a handle is
\* uploaded once and then once per edit made after its first materialization.
C15_MaterializeClearsFlag ==
    [][\A h \in Handles : Materialized(h) => ~inner'[h].needs_update]_vars

\* C16: with one TextureBuffer and a handle shared between threads, an edit
\* and a materialization of the handle never overlap, and in every state
\* where the handle's id is Some(i) and needs_update is false the cache
\* entry i was uploaded from the handle's current image.
C16_CacheCoherent ==
    /\ ~(drawPc = "locked" /\ other.pc = "editing" /\ other.tex = DrawTex)
    /\ \A h \in Handles :
        (inner[h].id # None /\ ~inner[h].needs_update) =>
            /\ unwrap(inner[h].id) \in DOMAIN Cache.textures
            /\ Cache.textures[unwrap(inner[h].id)] = CreateTexture(inner[h].image)

\* C17: when the factory rejects an upload, the first of a handle or a
\* re-upload, draw() aborts and leaves the cache's textures and next_id and
\* the handle's id and needs_update as they were.
C17_RejectedUploadKeepsState ==
    [][(drawPc = "locked" /\ panicMsg' = "Could not create texture") =>
        /\ drawPc' = "aborted"
        /\ texture_buffer' = texture_buffer
        /\ inner' = inner
        /\ uploads' = uploads]_vars

\* a first upload and a re-upload were rejected
C17_Witness ==
    /\ drawPc = "aborted" /\ panicMsg = "Could not create texture"
    /\ inner["T1"].id = None /\ edits["T1"] = 0
    /\ inner["T2"].id # None /\ inner["T2"].needs_update
    /\ poisoned["T1"] /\ poisoned["T2"]

\* C18: with_image_mut leaves needs_update true however it is left, also
\* when the edit function panics part-way through.
C18_EditAlwaysMarks ==
    [][(other.pc = "editing" /\ other'.pc # "editing") =>
        inner'[other.tex].needs_update]_vars

====
